---- MODULE Spec2Model ----
(***************************************************************************)
(* A model of the SQL formatter of src/src/main.rs: the Lexer, the         *)
(* Formatter and the part of main that drives them.                        *)
(*                                                                         *)
(* A character is a one-character string; a character outside ASCII is     *)
(* the string of its code point ("u017F").  A String and a Vec<char> are   *)
(* sequences of characters.  Positions are 0-based as in the source, so    *)
(* input[position] of the source is input[position + 1] here.              *)
(***************************************************************************)
EXTENDS Integers, Sequences, FiniteSets, TLC

(***************************************************************************)
(* Characters and the std::char predicates the source calls.               *)
(***************************************************************************)
UpperLetters ==
    <<"A","B","C","D","E","F","G","H","I","J","K","L","M",
      "N","O","P","Q","R","S","T","U","V","W","X","Y","Z">>

LowerLetters ==
    <<"a","b","c","d","e","f","g","h","i","j","k","l","m",
      "n","o","p","q","r","s","t","u","v","w","x","y","z">>

\* U+017F LATIN SMALL LETTER LONG S: alphabetic, its upper case is "S".
LongS == "u017F"

\* U+0131 LATIN SMALL LETTER DOTLESS I: alphabetic, its upper case is "I".
DotlessI == "u0131"

\* U+00B2 SUPERSCRIPT TWO: numeric (so alphanumeric), not a digit in radix 10.
SuperTwo == "u00B2"

\* U+00A0 NO-BREAK SPACE: has the White_Space property that str::trim
\* removes, and is none of the four characters the lexer calls whitespace.
Nbsp == "u00A0"

Range(s) == {s[i] : i \in 1..Len(s)}

IndexOf(c, table) == CHOOSE i \in 1..Len(table) : table[i] = c

\* char::is_alphabetic
is_alphabetic(c) ==
    c \in Range(UpperLetters) \cup Range(LowerLetters) \cup {LongS, DotlessI}

\* char::is_digit(10)
is_digit(c) == c \in {"0","1","2","3","4","5","6","7","8","9"}

\* char::is_numeric
is_numeric(c) == is_digit(c) \/ c = SuperTwo

\* char::is_alphanumeric
is_alphanumeric(c) == is_alphabetic(c) \/ is_numeric(c)

\* char::is_whitespace, the predicate of str::trim
is_whitespace(c) == c \in {" ", "\t", "\n", "\r", Nbsp}

\* char::to_uppercase
char_to_uppercase(c) ==
    IF c \in Range(LowerLetters) THEN UpperLetters[IndexOf(c, LowerLetters)]
    ELSE IF c = LongS THEN "S"
    ELSE IF c = DotlessI THEN "I"
    ELSE c

\* str::to_uppercase
to_uppercase(s) == [i \in 1..Len(s) |-> char_to_uppercase(s[i])]

\* char::to_ascii_lowercase, used only to enumerate the spellings of a word
to_ascii_lowercase(c) ==
    IF c \in Range(UpperLetters) THEN LowerLetters[IndexOf(c, UpperLetters)]
    ELSE c

(***************************************************************************)
(* Tokens.                                                                 *)
(***************************************************************************)
Keyword(s) == [kind |-> "Keyword", text |-> s]

Identifier(s) == [kind |-> "Identifier", text |-> s]

Literal(s) == [kind |-> "Literal", text |-> s]

Operator(s) == [kind |-> "Operator", text |-> s]

Punctuation(c) == [kind |-> "Punctuation", text |-> <<c>>]

Whitespace == [kind |-> "Whitespace", text |-> <<>>]

EOF == [kind |-> "EOF", text |-> <<>>]

\* Option::None of last_token, and "no call yet" of the lexer
None == [kind |-> "None", text |-> <<>>]

ReservedWords ==
    { <<"S","E","L","E","C","T">>, <<"F","R","O","M">>, <<"W","H","E","R","E">>,
      <<"A","N","D">>, <<"O","R">>, <<"I","N","S","E","R","T">>,
      <<"I","N","T","O">>, <<"U","P","D","A","T","E">>, <<"S","E","T">>,
      <<"D","E","L","E","T","E">>, <<"J","O","I","N">>, <<"L","E","F","T">>,
      <<"R","I","G","H","T">>, <<"O","U","T","E","R">>, <<"I","N","N","E","R">>,
      <<"O","N">>, <<"G","R","O","U","P">>, <<"B","Y">>,
      <<"O","R","D","E","R">>, <<"H","A","V","I","N","G">>, <<"A","S">>,
      <<"C","R","E","A","T","E">>, <<"T","A","B","L","E">>, <<"D","R","O","P">>,
      <<"A","L","T","E","R">> }

MajorClauseKeywords ==
    { <<"S","E","L","E","C","T">>, <<"F","R","O","M">>, <<"W","H","E","R","E">>,
      <<"U","P","D","A","T","E">>, <<"S","E","T">>, <<"G","R","O","U","P">>,
      <<"O","R","D","E","R">>, <<"L","E","F","T">>, <<"R","I","G","H","T">>,
      <<"I","N","N","E","R">> }

ConjunctionKeywords == { <<"A","N","D">>, <<"O","R">> }

(***************************************************************************)
(* Lexer.  Each operator takes the lexer's fields (input, position) and    *)
(* returns the token with the position the call leaves behind.             *)
(***************************************************************************)
\* the while loop of read_identifier: the position it stops at
RECURSIVE read_identifier_loop(_, _)
read_identifier_loop(input, position) ==
    IF position < Len(input) /\ is_alphanumeric(input[position + 1])
    THEN read_identifier_loop(input, position + 1)
    ELSE position

\* classify_identifier matching the text as written, case and all
classify_identifier_exact(ident) ==
    IF ident \in ReservedWords
    THEN Keyword(to_uppercase(ident))
    ELSE Identifier(ident)

\* the match of read_identifier on the accumulated text
classify_identifier(ident) ==
    IF to_uppercase(ident) \in ReservedWords
    THEN Keyword(to_uppercase(ident))
    ELSE Identifier(ident)

\* called with position just past first_char
read_identifier(input, position) ==
    LET end == read_identifier_loop(input, position)
    IN  [tok |-> classify_identifier(SubSeq(input, position, end)), pos |-> end]

\* the while loop of read_string_literal: the position it stops at
RECURSIVE read_string_literal_loop(_, _)
read_string_literal_loop(input, position) ==
    IF position < Len(input) /\ input[position + 1] # "'"
    THEN read_string_literal_loop(input, position + 1)
    ELSE position

\* read_string_literal leaving the closing quote out of the literal
read_string_literal_unquoted(input, position) ==
    LET stop == read_string_literal_loop(input, position)
        body == <<"'">> \o SubSeq(input, position + 1, stop)
    IN  IF stop < Len(input)
        THEN [tok |-> Literal(body), pos |-> stop + 1]
        ELSE [tok |-> Literal(body), pos |-> stop]

\* read_string_literal stepping over a closing quote without looking for it
read_string_literal_unchecked(input, position) ==
    LET stop == read_string_literal_loop(input, position)
        body == <<"'">> \o SubSeq(input, position + 1, stop)
    IN  [tok |-> Literal(body \o <<"'">>), pos |-> stop + 1]

\* read_string_literal closing a literal the input left open
read_string_literal_closing(input, position) ==
    LET stop == read_string_literal_loop(input, position)
        body == <<"'">> \o SubSeq(input, position + 1, stop)
    IN  IF stop < Len(input)
        THEN [tok |-> Literal(body \o <<input[stop + 1]>>), pos |-> stop + 1]
        ELSE [tok |-> Literal(body \o <<"'">>), pos |-> stop]

\* called with position just past the opening quote
read_string_literal(input, position) ==
    LET stop == read_string_literal_loop(input, position)
        body == <<"'">> \o SubSeq(input, position + 1, stop)
    IN  IF stop < Len(input)
        THEN [tok |-> Literal(body \o <<input[stop + 1]>>), pos |-> stop + 1]
        ELSE [tok |-> Literal(body), pos |-> stop]

\* the loop of read_number_literal testing is_numeric in place of is_digit(10)
RECURSIVE read_number_literal_loop_numeric(_, _)
read_number_literal_loop_numeric(input, position) ==
    IF position < Len(input) /\ is_numeric(input[position + 1])
    THEN read_number_literal_loop_numeric(input, position + 1)
    ELSE position

\* the while loop of read_number_literal: the position it stops at
RECURSIVE read_number_literal_loop(_, _)
read_number_literal_loop(input, position) ==
    IF position < Len(input) /\ is_digit(input[position + 1])
    THEN read_number_literal_loop(input, position + 1)
    ELSE position

\* called with position just past first_char
read_number_literal(input, position) ==
    LET end == read_number_literal_loop(input, position)
    IN  [tok |-> Literal(SubSeq(input, position, end)), pos |-> end]

\* at_end one character early, as `position + 1 >= len` would test
at_end_early(input, position) == position + 1 >= Len(input)

\* the test that opens next_token: nothing is left to read
at_end(input, position) == position >= Len(input)

\* next_token dropping a character it does not know as if it were whitespace
next_token_dropping(input, position) ==
    IF at_end(input, position)
    THEN [tok |-> EOF, pos |-> position]
    ELSE LET ch == input[position + 1]
             p  == position + 1
         IN  IF ch \in {" ", "\t", "\n", "\r"} THEN [tok |-> Whitespace, pos |-> p]
             ELSE IF ch \in {",", ";", "(", ")"} THEN [tok |-> Punctuation(ch), pos |-> p]
             ELSE IF ch \in {"+", "-", "*", "/", "=", "<", ">"}
                  THEN [tok |-> Operator(<<ch>>), pos |-> p]
             ELSE IF ch = "'" THEN read_string_literal(input, p)
             ELSE IF is_alphabetic(ch) THEN read_identifier(input, p)
             ELSE IF is_digit(ch) THEN read_number_literal(input, p)
             ELSE [tok |-> Whitespace, pos |-> p]

next_token(input, position) ==
    IF at_end(input, position)
    THEN [tok |-> EOF, pos |-> position]
    ELSE LET ch == input[position + 1]
             p  == position + 1
         IN  IF ch \in {" ", "\t", "\n", "\r"} THEN [tok |-> Whitespace, pos |-> p]
             ELSE IF ch \in {",", ";", "(", ")"} THEN [tok |-> Punctuation(ch), pos |-> p]
             ELSE IF ch \in {"+", "-", "*", "/", "=", "<", ">"}
                  THEN [tok |-> Operator(<<ch>>), pos |-> p]
             ELSE IF ch = "'" THEN read_string_literal(input, p)
             ELSE IF is_alphabetic(ch) THEN read_identifier(input, p)
             ELSE IF is_digit(ch) THEN read_number_literal(input, p)
             ELSE [tok |-> Identifier(<<ch>>), pos |-> p]

\* the loop of main that drains a lexer into a Vec, as a function of the text
RECURSIVE tokenize_from(_, _)
tokenize_from(input, position) ==
    LET r == next_token(input, position)
    IN  IF r.tok = EOF THEN <<>>
        ELSE <<r.tok>> \o tokenize_from(input, r.pos)

tokenize(input) == tokenize_from(input, 0)

(***************************************************************************)
(* Formatter.  st holds the fields of the Formatter (indent_level, output) *)
(* with two additions: panicked, set when the call unwinds, and emitted,   *)
(* the record of every append_token call (the token, the indent_level it   *)
(* was appended at and the length of output before it).                    *)
(***************************************************************************)
\* usize::MAX and isize::MAX.  TLC's integers are 32 bits wide, so
\* the model's usize is the widest it can hold; the code only compares the
\* wrapped level with the largest allocation, which any width preserves.
UsizeMax == 2147483647

IsizeMax == 1073741823

\* "\t".repeat(n), once n is known to be allocatable
repeat_tab(n) == [i \in 1..n |-> "\t"]

\* str::trim
RECURSIVE trim_start(_)
trim_start(s) ==
    IF s # <<>> /\ is_whitespace(Head(s)) THEN trim_start(Tail(s)) ELSE s

RECURSIVE trim_end(_)
trim_end(s) ==
    IF s # <<>> /\ is_whitespace(s[Len(s)])
    THEN trim_end(SubSeq(s, 1, Len(s) - 1))
    ELSE s

trim(s) == trim_end(trim_start(s))

\* indent_inc left out of a branch of format
indent_inc_forgotten(st, overflow_checks) == st

\* self.indent_level += 1
indent_inc(st, overflow_checks) ==
    IF st.panicked THEN st
    ELSE IF st.indent_level < UsizeMax
         THEN [st EXCEPT !.indent_level = st.indent_level + 1]
    ELSE IF overflow_checks THEN [st EXCEPT !.panicked = TRUE]
    ELSE [st EXCEPT !.indent_level = 0]

\* indent_dec stopping at 0, as saturating_sub would
indent_dec_saturating(st, overflow_checks) ==
    IF st.panicked THEN st
    ELSE IF st.indent_level > 0
         THEN [st EXCEPT !.indent_level = st.indent_level - 1]
    ELSE st

\* self.indent_level -= 1: a build with overflow checks panics at level 0,
\* a build without them wraps to usize::MAX
indent_dec(st, overflow_checks) ==
    IF st.panicked THEN st
    ELSE IF st.indent_level > 0
         THEN [st EXCEPT !.indent_level = st.indent_level - 1]
    ELSE IF overflow_checks THEN [st EXCEPT !.panicked = TRUE]
    ELSE [st EXCEPT !.indent_level = UsizeMax]

append_token(st, token) ==
    IF st.panicked THEN st
    ELSE IF st.indent_level > IsizeMax THEN [st EXCEPT !.panicked = TRUE]
    ELSE LET rec == [tok |-> token, level |-> st.indent_level, at |-> Len(st.output)]
             pushed == IF token.kind \in {"Keyword", "Identifier", "Literal",
                                          "Operator", "Punctuation"}
                       THEN st.output \o token.text
                       ELSE st.output
         IN  [st EXCEPT !.output = pushed, !.emitted = Append(st.emitted, rec)]

\* append_with_space without the exception for an opening parenthesis
append_with_space_always(st, token, last_token) ==
    IF st.panicked THEN st
    ELSE LET spaced == IF last_token # None
                       THEN [st EXCEPT !.output = st.output \o <<" ">>]
                       ELSE st
         IN  append_token(spaced, token)

append_with_space(st, token, last_token) ==
    IF st.panicked THEN st
    ELSE LET spaced == IF last_token # None /\ last_token # Punctuation("(")
                       THEN [st EXCEPT !.output = st.output \o <<" ">>]
                       ELSE st
         IN  append_token(spaced, token)

\* new_line breaking the line unless the buffer is empty or just broken:
\* the test of the source with its second condition negated
new_line_breaking(st) ==
    IF st.panicked THEN st
    ELSE LET broken == IF st.output # <<>> /\ st.output[Len(st.output)] # "\n"
                       THEN st.output \o <<"\n">>
                       ELSE st.output
         IN  IF st.indent_level > IsizeMax
             THEN [st EXCEPT !.output = broken, !.panicked = TRUE]
             ELSE [st EXCEPT !.output = broken \o repeat_tab(st.indent_level)]

new_line(st) ==
    IF st.panicked THEN st
    ELSE LET broken == IF st.output # <<>> /\ st.output[Len(st.output)] = "\n"
                       THEN st.output \o <<"\n">>
                       ELSE st.output
         IN  IF st.indent_level > IsizeMax
             THEN [st EXCEPT !.output = broken, !.panicked = TRUE]
             ELSE [st EXCEPT !.output = broken \o repeat_tab(st.indent_level)]

\* format_token raising the level of a major clause keyword before its
\* second new line, and the level of a '(' after its new line
format_token_misordered(st, token, last_token, overflow_checks) ==
    IF token.kind = "Keyword" /\ token.text \in MajorClauseKeywords
    THEN new_line(indent_inc(append_token(new_line(st), token), overflow_checks))
    ELSE IF token.kind = "Keyword" /\ token.text \in ConjunctionKeywords
    THEN append_token(new_line(st), token)
    ELSE IF token.kind = "Keyword"
    THEN append_with_space(st, token, last_token)
    ELSE IF token = Punctuation("(")
    THEN indent_inc(new_line(append_with_space(st, token, last_token)), overflow_checks)
    ELSE IF token = Punctuation(")")
    THEN append_token(new_line(indent_dec(st, overflow_checks)), token)
    ELSE IF token = Punctuation(",")
    THEN new_line(append_token(st, token))
    ELSE IF token = Whitespace
    THEN st
    ELSE append_with_space(st, token, last_token)

\* format_token appending a comma the way it appends an identifier
format_token_spaced_comma(st, token, last_token, overflow_checks) ==
    IF token.kind = "Keyword" /\ token.text \in MajorClauseKeywords
    THEN indent_inc(new_line(append_token(new_line(st), token)), overflow_checks)
    ELSE IF token.kind = "Keyword" /\ token.text \in ConjunctionKeywords
    THEN append_token(new_line(st), token)
    ELSE IF token.kind = "Keyword"
    THEN append_with_space(st, token, last_token)
    ELSE IF token = Punctuation("(")
    THEN new_line(indent_inc(append_with_space(st, token, last_token), overflow_checks))
    ELSE IF token = Punctuation(")")
    THEN append_token(new_line(indent_dec(st, overflow_checks)), token)
    ELSE IF token = Punctuation(",")
    THEN new_line(append_with_space(st, token, last_token))
    ELSE IF token = Whitespace
    THEN st
    ELSE append_with_space(st, token, last_token)

\* the match of one iteration of the for loop of format
format_token(st, token, last_token, overflow_checks) ==
    IF token.kind = "Keyword" /\ token.text \in MajorClauseKeywords
    THEN indent_inc(new_line(append_token(new_line(st), token)), overflow_checks)
    ELSE IF token.kind = "Keyword" /\ token.text \in ConjunctionKeywords
    THEN append_token(new_line(st), token)
    ELSE IF token.kind = "Keyword"
    THEN append_with_space(st, token, last_token)
    ELSE IF token = Punctuation("(")
    THEN new_line(indent_inc(append_with_space(st, token, last_token), overflow_checks))
    ELSE IF token = Punctuation(")")
    THEN append_token(new_line(indent_dec(st, overflow_checks)), token)
    ELSE IF token = Punctuation(",")
    THEN new_line(append_token(st, token))
    ELSE IF token = Whitespace
    THEN st
    ELSE append_with_space(st, token, last_token)

\* next_last_token remembering whitespace tokens too
next_last_token_any(token, last_token) == token

\* the update of last_token that ends the iteration
next_last_token(token, last_token) ==
    IF token # Whitespace THEN token ELSE last_token

\* the for loop of format over the tokens ts, from the state st
RECURSIVE format_loop(_, _, _, _)
format_loop(st, ts, last_token, overflow_checks) ==
    IF ts = <<>> \/ st.panicked THEN st
    ELSE format_loop(format_token(st, Head(ts), last_token, overflow_checks),
                     Tail(ts),
                     next_last_token(Head(ts), last_token),
                     overflow_checks)

\* Formatter::new(ts).format(): whether the call panicked, and the String
\* it returned if not
format(ts, overflow_checks) ==
    LET new == [indent_level |-> 0, output |-> <<>>, emitted |-> <<>>,
                panicked |-> FALSE]
        end == format_loop(new, ts, None, overflow_checks)
    IN  [panicked |-> end.panicked,
         formatted |-> IF end.panicked THEN <<>> ELSE trim(end.output)]

(***************************************************************************)
(* The inputs the model runs on.                                           *)
(***************************************************************************)
\* the longest input, in pieces, of the enumerated inputs
MaxPieces == 3

\* how many times next_token is called again once it has returned EOF
MaxEofCalls == 2

Pieces ==
    { <<"a">>, <<"1">>, <<" ">>, <<"\n">>, <<",">>, <<";">>, <<"(">>, <<")">>,
      <<"=">>, <<"'">>, <<"#">>, <<Nbsp>>, <<SuperTwo>>,
      <<"o","r">>, <<"S","E","T">>, <<"a","s">> }

RECURSIVE Concats(_)
Concats(n) ==
    IF n = 0 THEN {<<>>}
    ELSE LET shorter == Concats(n - 1)
         IN  shorter \cup {s \o p : s \in shorter, p \in Pieces}

\* the spellings of a word: each letter in upper or lower case, and the
\* letters outside ASCII whose upper case is that letter
RECURSIVE Spellings(_)
Spellings(w) ==
    IF w = <<>> THEN {<<>>}
    ELSE LET c == Head(w)
             cs == {c, to_ascii_lowercase(c)}
                   \cup (IF c = "S" THEN {LongS} ELSE {})
                   \cup (IF c = "I" THEN {DotlessI} ELSE {})
         IN  {<<x>> \o r : x \in cs, r \in Spellings(Tail(w))}

KeywordInputs ==
    LET spelled == UNION {Spellings(w) : w \in ReservedWords}
    IN  spelled
        \cup {s \o <<"x">> : s \in spelled}
        \cup {s \o <<"2">> : s \in spelled}
        \cup {<<"x">> \o s : s \in spelled}
        \cup {s \o <<"=">> : s \in spelled}

SampleInputs ==
    { <<"S","E","L","E","C","T"," ","a",",","b"," ","F","R","O","M"," ","t"," ",
        "W","H","E","R","E"," ","a","=","1">>,
      <<"(","a",",","b",")">>,
      <<"1","2","3","a","b","c">>,
      <<"1","2","3",".","4">>,
      <<"'","a","b","'">>,
      <<"'","a","b">>,
      <<"'","a","'","b","'">>,
      <<"a"," ","A","N","D"," ","b">>,
      <<"(","(","a",")",")">>,
      <<"(","S","E","T"," ","a",")">>,
      <<"<","=">>,
      <<"(","a",",",",">>,
      <<"a"," ","\t","\n","\r","b">>,
      <<"+","-","*","/","=","<",">">>,
      <<"(",",",";",")">>,
      <<"(","'","\n","'",",","o","r"," ","'","\n">> }

Inputs == Concats(MaxPieces) \cup KeywordInputs \cup SampleInputs

(***************************************************************************)
(* The program: main reads the buffer, drains a Lexer into tokens, builds  *)
(* a Formatter over them and calls format.                                 *)
(***************************************************************************)
VARIABLES
    pc,            \* where main is: "main", "lex", "format", "done", "panic", "noinput"
    input,         \* Lexer.input (the buffer main read)
    position,      \* Lexer.position
    ret,           \* what the last call of next_token returned (None: no call yet)
    eof_calls,     \* how many calls of next_token returned EOF
    tokens,        \* the Vec main collects, then Formatter.tokens
    idx,           \* how many tokens the for loop of format has processed
    indent_level,  \* Formatter.indent_level
    output,        \* Formatter.output
    last_token,    \* the local last_token of format
    emitted,       \* the append_token calls so far
    formatted      \* the String format returned

vars == <<pc, input, position, ret, eof_calls, tokens, idx, indent_level,
          output, last_token, emitted, formatted>>

lexer_vars == <<input, position, ret, eof_calls, tokens>>

formatter_vars == <<idx, indent_level, output, last_token, emitted, formatted>>

Init ==
    /\ input \in Inputs
    /\ pc = "main"
    /\ position = 0
    /\ ret = None
    /\ eof_calls = 0
    /\ tokens = <<>>
    /\ idx = 0
    /\ indent_level = 0
    /\ output = <<>>
    /\ last_token = None
    /\ emitted = <<>>
    /\ formatted = <<>>

\* main: the buffer is empty once trimmed, nothing is tokenized
MainNoInput ==
    /\ pc = "main"
    /\ trim(input) = <<>>
    /\ pc' = "noinput"
    /\ UNCHANGED <<lexer_vars, formatter_vars>>

\* main: Lexer::new(&buffer)
LexerNew ==
    /\ pc = "main"
    /\ trim(input) # <<>>
    /\ pc' = "lex"
    /\ position' = 0
    /\ UNCHANGED <<input, ret, eof_calls, tokens, formatter_vars>>

\* one call of Lexer::next_token; main pushes every token before EOF.  A
\* caller may call again after EOF, which main itself never does.
NextToken ==
    /\ pc = "lex"
    /\ ret = EOF => eof_calls < MaxEofCalls
    /\ LET r == next_token(input, position)
       IN  /\ position' = r.pos
           /\ ret' = r.tok
           /\ tokens' = IF r.tok = EOF THEN tokens ELSE Append(tokens, r.tok)
           /\ eof_calls' = IF r.tok = EOF THEN eof_calls + 1 ELSE eof_calls
    /\ UNCHANGED <<pc, input, formatter_vars>>

\* main: the loop breaks on EOF, then Formatter::new(tokens)
FormatterNew ==
    /\ pc = "lex"
    /\ ret = EOF
    /\ pc' = "format"
    /\ idx' = 0
    /\ indent_level' = 0
    /\ output' = <<>>
    /\ last_token' = None
    /\ emitted' = <<>>
    /\ UNCHANGED <<lexer_vars, formatted>>

\* one iteration of the for loop of Formatter::format
FormatToken ==
    /\ pc = "format"
    /\ idx < Len(tokens)
    /\ \E overflow_checks \in BOOLEAN :
          LET token == tokens[idx + 1]
              st == [indent_level |-> indent_level, output |-> output,
                     emitted |-> emitted, panicked |-> FALSE]
              after == format_token(st, token, last_token, overflow_checks)
          IN  /\ indent_level' = after.indent_level
              /\ output' = after.output
              /\ emitted' = after.emitted
              /\ pc' = IF after.panicked THEN "panic" ELSE "format"
              /\ idx' = IF after.panicked THEN idx ELSE idx + 1
              /\ last_token' = IF after.panicked THEN last_token
                               ELSE next_last_token(token, last_token)
    /\ UNCHANGED <<lexer_vars, formatted>>

\* the end of Formatter::format: self.output.trim().to_string()
FormatReturn ==
    /\ pc = "format"
    /\ idx = Len(tokens)
    /\ formatted' = trim(output)
    /\ pc' = "done"
    /\ UNCHANGED <<lexer_vars, idx, indent_level, output, last_token, emitted>>

Next ==
    \/ MainNoInput
    \/ LexerNew
    \/ NextToken
    \/ FormatterNew
    \/ FormatToken
    \/ FormatReturn

Spec == Init /\ [][Next]_vars

TypeOK ==
    /\ pc \in {"main", "lex", "format", "done", "panic", "noinput"}
    /\ position \in 0..Len(input)
    /\ idx \in 0..Len(tokens)
    /\ indent_level \in 0..UsizeMax

(***************************************************************************)
(* Properties.                                                             *)
(***************************************************************************)
NonWhitespace(ts) == SelectSeq(ts, LAMBDA t : t # Whitespace)

\* the lines of a text: the pieces between its line breaks
RECURSIVE SplitLines(_)
SplitLines(s) ==
    IF \A i \in 1..Len(s) : s[i] # "\n" THEN <<s>>
    ELSE LET k == CHOOSE i \in 1..Len(s) :
                      s[i] = "\n" /\ \A j \in 1..(i - 1) : s[j] # "\n"
         IN  <<SubSeq(s, 1, k - 1)>> \o SplitLines(SubSeq(s, k + 1, Len(s)))

\* how many indentation characters open a line
Indentation(line) == Len(line) - Len(trim_start(line))

\* a line without its spaces and tabs
Unspaced(line) == SelectSeq(line, LAMBDA c : c \notin {" ", "\t"})

\* C1: token preservation: re-tokenizing the string format returned and
\* discarding the Whitespace tokens gives the non-whitespace tokens of the
\* input, same kinds, same text, same order.
C1_TokenPreservation ==
    pc = "done" => NonWhitespace(tokenize(formatted)) = NonWhitespace(tokens)

\* the next token of the for loop of format is a ')' met at level 0
ClosingAtLevelZero ==
    /\ pc = "format"
    /\ idx < Len(tokens)
    /\ tokens[idx + 1] = Punctuation(")")
    /\ indent_level = 0

\* C2: when format processes a ')' at indentation level 0 the run ends in
\* the error outcome (the call unwinds), and a run that has ended so never
\* returns a formatted string.
C2_ClosingAtZeroIsError ==
    [][ /\ ClosingAtLevelZero => pc' = "panic" /\ formatted' = <<>>
        /\ pc = "panic" => pc' = "panic" /\ formatted' = <<>> ]_vars

\* a ')' was met at level 0 and the run has unwound at it
C2_Witness ==
    /\ pc = "panic"
    /\ tokens[idx + 1] = Punctuation(")")
    /\ formatted = <<>>

SelectSample ==
    <<"S","E","L","E","C","T"," ","a",",","b"," ","F","R","O","M"," ","t"," ",
      "W","H","E","R","E"," ","a","=","1">>

\* C3: "SELECT a,b FROM t WHERE a=1" formats to SELECT alone on a line, `a,`
\* and `b` each on an indented line, then FROM and WHERE each opening a line
\* at the indentation of SELECT, each followed by its body on an indented line.
C3_MajorClauseLayout ==
    (pc = "done" /\ input = SelectSample) =>
        LET ls == SplitLines(formatted)
        IN  /\ Len(ls) = 7
            /\ Unspaced(ls[1]) = <<"S","E","L","E","C","T">>
            /\ Unspaced(ls[2]) = <<"a", ",">>
            /\ Unspaced(ls[3]) = <<"b">>
            /\ Unspaced(ls[4]) = <<"F","R","O","M">>
            /\ Unspaced(ls[5]) = <<"t">>
            /\ Unspaced(ls[6]) = <<"W","H","E","R","E">>
            /\ Unspaced(ls[7]) = <<"a", "=", "1">>
            /\ Indentation(ls[4]) = Indentation(ls[1])
            /\ Indentation(ls[6]) = Indentation(ls[1])
            /\ \A i \in {2, 3, 5, 7} : Indentation(ls[i]) > Indentation(ls[1])

\* the text a token stands for is the characters s, by the token's kind
Stands(tok, s) ==
    IF tok.kind = "Whitespace" THEN Len(s) = 1
    ELSE IF tok.kind = "Keyword" THEN tok.text = to_uppercase(s)
    ELSE tok.kind \in {"Identifier", "Literal", "Operator", "Punctuation"}
         /\ tok.text = s

\* how many characters a token stands for
Width(tok) == IF tok.kind = "Whitespace" THEN 1 ELSE Len(tok.text)

\* the tokens ts stand, one after the other with nothing between them and
\* nothing left over, for the characters s
RECURSIVE Partitions(_, _)
Partitions(ts, s) ==
    IF ts = <<>> THEN s = <<>>
    ELSE /\ Width(Head(ts)) <= Len(s)
         /\ Stands(Head(ts), SubSeq(s, 1, Width(Head(ts))))
         /\ Partitions(Tail(ts), SubSeq(s, Width(Head(ts)) + 1, Len(s)))

\* C4: the tokens returned before EOF consume consecutive ranges that
\* cover the input read so far, the whole input once EOF is returned: a
\* Whitespace stands for one character, an Identifier, Literal, Operator or
\* Punctuation carries the characters it consumed, a Keyword their upper case.
C4_TokensPartitionInput ==
    /\ Partitions(tokens, SubSeq(input, 1, position))
    /\ ret = EOF => Partitions(tokens, input)

\* every kind of token was returned, a Keyword among them from lower case
C4_Witness ==
    /\ ret = EOF
    /\ \E i \in 1..Len(tokens) : tokens[i] = Whitespace
    /\ \E i \in 1..Len(tokens) : tokens[i].kind = "Keyword"
    /\ \E i \in 1..Len(tokens) : tokens[i].kind = "Literal"
    /\ to_uppercase(input) # input

\* C5: a call of next_token that does not return EOF moves the cursor
\* forward by at least one, the cursor never moves back and never passes
\* the end of the input, EOF comes after at most len(input) tokens, and no
\* call fails.
C5_LexerTerminates ==
    [][ /\ position' >= position
        /\ position' <= Len(input)
        /\ Len(tokens') <= Len(input)
        /\ (NextToken /\ ret' # EOF) => position' > position
        /\ (NextToken /\ position = Len(input)) => ret' = EOF
        /\ pc = "lex" => pc' \in {"lex", "format"} ]_vars

\* an unterminated literal ran to the end of the input and EOF followed it
C5_Witness ==
    /\ ret = EOF
    /\ Len(tokens) >= 2
    /\ tokens[Len(tokens)].kind = "Literal"
    /\ tokens[Len(tokens)].text[1] = "'"
    /\ input[Len(input)] # "'"

\* C6: once next_token has returned EOF every later call returns EOF and
\* leaves the cursor where it is, and EOF is returned only with the cursor
\* at the end of the input.
C6_EofAbsorbing ==
    [][ /\ (NextToken /\ ret = EOF) => (ret' = EOF /\ position' = position)
        /\ ret' = EOF => position' = Len(input) ]_vars

\* next_token was called again after EOF and returned EOF again
C6_Witness ==
    /\ ret = EOF
    /\ eof_calls >= 2
    /\ tokens # <<>>

\* the position where the run of characters satisfying P that starts at
\* position from ends, found by looking at the input, not by scanning it
RunEnd(s, from, P(_)) ==
    CHOOSE e \in from..Len(s) :
        /\ \A i \in (from + 1)..e : P(s[i])
        /\ e < Len(s) => ~P(s[e + 1])

\* the run is the word w spelled in upper and lower case letters
IsSpellingOf(run, w) ==
    /\ Len(run) = Len(w)
    /\ \A i \in 1..Len(w) : char_to_uppercase(run[i]) = w[i]

\* C7: an alphanumeric run that starts with a letter and spells a reserved
\* word in any mix of upper and lower case is returned as the Keyword of the
\* upper-case word; every other such run (a reserved word with more
\* alphanumeric characters attached too) is returned as an Identifier with
\* the text as written.
C7_KeywordCaseNormalization ==
    [][ (NextToken /\ position < Len(input) /\ is_alphabetic(input[position + 1])) =>
            LET end == RunEnd(input, position + 1, is_alphanumeric)
                run == SubSeq(input, position + 1, end)
            IN  /\ position' = end
                /\ \A w \in ReservedWords : IsSpellingOf(run, w) => ret' = Keyword(w)
                /\ (\A w \in ReservedWords : ~IsSpellingOf(run, w)) =>
                       ret' = Identifier(run) ]_vars

\* a reserved word in mixed case came back as the upper-case Keyword
C7_Witness ==
    /\ ret = Keyword(<<"S","E","L","E","C","T">>)
    /\ input = <<"S","e","L","e","C","t">>

\* C8: at a single quote next_token returns one Literal running from that
\* quote through the next single quote, or to the end of the input when no
\* quote follows, with no quote added; the cursor ends just past the text.
C8_StringLiteralScan ==
    [][ (NextToken /\ position < Len(input) /\ input[position + 1] = "'") =>
            LET closing == {q \in (position + 2)..Len(input) : input[q] = "'"}
                last == IF closing = {} THEN Len(input)
                        ELSE CHOOSE q \in closing : \A r \in closing : q <= r
            IN  /\ ret' = Literal(SubSeq(input, position + 1, last))
                /\ position' = last ]_vars

\* a closed literal was returned, and after it one the input leaves open
C8_Witness ==
    /\ tokens = <<Literal(<<"'","a","'">>), Identifier(<<"b">>), Literal(<<"'">>)>>
    /\ position = Len(input)
    /\ input = <<"'","a","'","b","'">>

\* C9: at a digit next_token returns one Literal holding the longest run of
\* decimal digits that starts there, and the character after the run
\* begins the next token ("123abc" is Literal("123"), Identifier("abc")).
C9_NumberLiteralScan ==
    [][ /\ (NextToken /\ position < Len(input) /\ is_digit(input[position + 1])) =>
               LET end == RunEnd(input, position + 1, is_digit)
               IN  /\ ret' = Literal(SubSeq(input, position + 1, end))
                   /\ position' = end
        /\ (input = <<"1","2","3","a","b","c">> /\ ret' = EOF) =>
               tokens' = <<Literal(<<"1","2","3">>), Identifier(<<"a","b","c">>)>> ]_vars

\* a digit run was cut short by a numeric character that is no digit
C9_Witness ==
    /\ input = <<"1", "1", SuperTwo>>
    /\ tokens = <<Literal(<<"1","1">>), Identifier(<<SuperTwo>>)>>

\* how many of emitted[lo..hi] are the punctuation c
CountPunctuation(c, lo, hi) ==
    Cardinality({k \in lo..hi : emitted[k].tok = Punctuation(c)})

\* emitted[i] is a '(' and emitted[j] the ')' that closes it
MatchingParentheses(i, j) ==
    /\ i < j
    /\ emitted[i].tok = Punctuation("(")
    /\ emitted[j].tok = Punctuation(")")
    /\ CountPunctuation("(", i + 1, j - 1) = CountPunctuation(")", i + 1, j - 1)
    /\ \A m \in (i + 1)..(j - 1) :
           CountPunctuation("(", i + 1, m) >= CountPunctuation(")", i + 1, m)

\* emitted[k] lies between emitted[i] and emitted[j], in no nested pair
DirectlyEnclosed(i, k, j) ==
    /\ i < k /\ k < j
    /\ CountPunctuation("(", i + 1, k - 1) = CountPunctuation(")", i + 1, k - 1)

NoMajorClauseBetween(i, j) ==
    \A k \in (i + 1)..(j - 1) :
        ~(emitted[k].tok.kind = "Keyword" /\ emitted[k].tok.text \in MajorClauseKeywords)

\* what output holds between the text of emitted[k - 1] and that of emitted[k]
GapBefore(k) ==
    SubSeq(output, emitted[k - 1].at + Len(emitted[k - 1].tok.text) + 1, emitted[k].at)

\* the tokens directly between a '(' and its ')' are appended one level
\* deeper than the '(' and the ')' at the level of the '('
C10_LevelsInParentheses ==
    \A i, j \in 1..Len(emitted) :
        (MatchingParentheses(i, j) /\ NoMajorClauseBetween(i, j)) =>
            /\ emitted[j].level = emitted[i].level
            /\ \A k \in (i + 1)..(j - 1) :
                   DirectlyEnclosed(i, k, j) => emitted[k].level = emitted[i].level + 1

\* each item between the parentheses, the text after the '(' and after
\* each comma, opens a line of its own
C10_ItemsOnOwnLines ==
    \A i, j \in 1..Len(emitted) :
        (MatchingParentheses(i, j) /\ NoMajorClauseBetween(i, j)) =>
            \A k \in (i + 1)..(j - 1) :
                (/\ DirectlyEnclosed(i, k, j)
                 /\ emitted[k - 1].tok \in {Punctuation("("), Punctuation(",")}) =>
                    "\n" \in Range(GapBefore(k))

\* C10: between a '(' and its matching ')' with no major clause keyword
\* between them the tokens are emitted one indentation level deeper than
\* the '(' and the ')' back at the level of the '('; for "(a,b)" `a,` and
\* `b` are each on an indented line of their own.
C10_ParenthesisBalance ==
    /\ C10_LevelsInParentheses
    /\ C10_ItemsOnOwnLines
    /\ (pc = "done" /\ input = <<"(","a",",","b",")">>) =>
           LET ls == SplitLines(formatted)
           IN  \E m, n \in 1..Len(ls) :
                   /\ m < n
                   /\ Unspaced(ls[m]) = <<"a", ",">> /\ Indentation(ls[m]) > 0
                   /\ Unspaced(ls[n]) = <<"b">> /\ Indentation(ls[n]) > 0

\* how many of the first n tokens satisfy P
CountTokens(n, P(_)) == Cardinality({k \in 1..n : P(tokens[k])})

IsMajorClause(tok) == tok.kind = "Keyword" /\ tok.text \in MajorClauseKeywords

IsOpening(tok) == tok = Punctuation("(")

IsClosing(tok) == tok = Punctuation(")")

\* C11: while a format run goes on and once it has returned, the
\* indentation level is not negative and is the number of major clause
\* keywords processed plus the '(' processed minus the ')' processed; it is
\* 0 before the first token, and only a ')' lowers it.
C11_IndentationCounter ==
    pc \in {"format", "done"} =>
        /\ indent_level >= 0
        /\ indent_level = CountTokens(idx, IsMajorClause) + CountTokens(idx, IsOpening)
                          - CountTokens(idx, IsClosing)
        /\ idx = 0 => indent_level = 0

\* a run returned after a major clause keyword, a '(' and a ')'
C11_Witness ==
    /\ pc = "done"
    /\ indent_level = 1
    /\ CountTokens(idx, IsMajorClause) = 1
    /\ CountTokens(idx, IsOpening) = 1
    /\ CountTokens(idx, IsClosing) = 1

\* n indentation units
Tabs(n) == [i \in 1..n |-> "\t"]

\* the last non-whitespace token among the first n tokens, None without one
RECURSIVE PreviousToken(_)
PreviousToken(n) ==
    IF n = 0 THEN None
    ELSE IF tokens[n] # Whitespace THEN tokens[n]
    ELSE PreviousToken(n - 1)

\* the space the spacing rule of the code puts before a token appended inline
SpaceBefore(n) ==
    IF PreviousToken(n) \in {None, Punctuation("(")} THEN <<>> ELSE <<" ">>

\* the iteration of format that processes a token satisfying P, from level L
Processes(P(_), L) ==
    /\ FormatToken
    /\ pc' = "format"
    /\ P(tokens[idx + 1])
    /\ indent_level = L

\* C12: a major clause keyword met at level L gets the indentation of level
\* L before it and again after it, and only then the level becomes L + 1;
\* a '(' raises the level before its new line (L + 1 units follow it) and a
\* ')' lowers it before its new line (L - 1 units precede it).
C12_StepOrder ==
    [][ \A L \in 0..Len(tokens) :
          /\ Processes(IsMajorClause, L) =>
                 /\ output' = output \o Tabs(L) \o tokens[idx + 1].text \o Tabs(L)
                 /\ indent_level' = L + 1
          /\ Processes(IsOpening, L) =>
                 /\ output' = output \o SpaceBefore(idx) \o <<"(">> \o Tabs(L + 1)
                 /\ indent_level' = L + 1
          /\ Processes(IsClosing, L) =>
                 /\ output' = output \o Tabs(L - 1) \o <<")">>
                 /\ indent_level' = L - 1 ]_vars

\* a major clause keyword, a '(' and a ')' were processed above level 0
C12_Witness ==
    /\ pc = "done"
    /\ tokens = <<Punctuation("("), Keyword(<<"S","E","T">>), Whitespace,
                  Identifier(<<"a">>), Punctuation(")")>>
    /\ output = <<"(", "\t", "\t", "S", "E", "T", "\t", " ", "a", "\t", ")">>

\* the tokens the spacing rule of the claim speaks of
IsInline(tok) ==
    \/ tok.kind \in {"Identifier", "Literal", "Operator"}
    \/ /\ tok.kind = "Keyword"
       /\ tok.text \notin MajorClauseKeywords \cup ConjunctionKeywords
    \/ tok = Punctuation("(")

\* what output holds between the text of the token appended before
\* emitted[k], or the start of output, and the text of emitted[k]
GapBeforeText(k) ==
    IF k = 1 THEN SubSeq(output, 1, emitted[1].at) ELSE GapBefore(k)

CountSpaces(s) == Cardinality({i \in 1..Len(s) : s[i] = " "})

\* the text of emitted[k] comes right after one space, the only one in its gap
ExactlyOneSpaceBefore(k) ==
    /\ CountSpaces(GapBeforeText(k)) = 1
    /\ GapBeforeText(k)[Len(GapBeforeText(k))] = " "

NoSpaceBefore(k) == CountSpaces(GapBeforeText(k)) = 0

\* C13, as claimed: every Identifier, Literal, Operator, other Keyword and
\* '(' is appended after exactly one space, unless the non-whitespace token
\* before it is a '(', and then after no space.
C13_SpacingRule ==
    \A k \in 1..Len(emitted) :
        IsInline(emitted[k].tok) =>
            IF k > 1 /\ emitted[k - 1].tok = Punctuation("(")
            THEN NoSpaceBefore(k)
            ELSE ExactlyOneSpaceBefore(k)

\* C13, amended: every Identifier, Literal, Operator, other Keyword and '('
\* is appended after exactly one space, unless it is the first
\* non-whitespace token or the non-whitespace token before it is a '(', and
\* then after no space.
C13_SpacingRuleAfterFirst ==
    \A k \in 1..Len(emitted) :
        IsInline(emitted[k].tok) =>
            IF k = 1 \/ emitted[k - 1].tok = Punctuation("(")
            THEN NoSpaceBefore(k)
            ELSE ExactlyOneSpaceBefore(k)

\* a first token, a '(' after a token and a token after the '(' were appended
C13_Witness ==
    /\ pc = "done"
    /\ input = <<"a", "(", "a">>
    /\ output = <<"a", " ", "(", "\t", "a">>

IsComma(tok) == tok = Punctuation(",")

\* the tokens whose branch of format ends with new_line: indentation follows them
EndsWithNewLine(tok) == IsMajorClause(tok) \/ IsOpening(tok) \/ IsComma(tok)

\* the indentation of level n follows the text of emitted[k] in output
IndentationAfter(k, n) ==
    LET from == emitted[k].at + Len(emitted[k].tok.text)
    IN  /\ from + n <= Len(output)
        /\ SubSeq(output, from + 1, from + n) = Tabs(n)

\* C14, as claimed: every comma with a non-whitespace token before it is
\* appended right after the last character of that token's text, nothing
\* between them, and the new line of the current level follows it.
C14_CommaAdjacency ==
    \A k \in 2..Len(emitted) :
        IsComma(emitted[k].tok) =>
            /\ GapBefore(k) = <<>>
            /\ IndentationAfter(k, emitted[k].level)

\* C14, amended: a comma is appended with nothing put before it, so it comes
\* right after the text of the token before it unless that token is a '(',
\* a ',' or a major clause keyword, whose own new line left indentation
\* units, and nothing else, between them; the new line of the current level
\* follows the comma.
C14_CommaAfterTokenOrIndentation ==
    \A k \in 2..Len(emitted) :
        IsComma(emitted[k].tok) =>
            /\ ~EndsWithNewLine(emitted[k - 1].tok) => GapBefore(k) = <<>>
            /\ (IsOpening(emitted[k - 1].tok) \/ IsComma(emitted[k - 1].tok)) =>
                   GapBefore(k) = Tabs(emitted[k].level)
            /\ IsMajorClause(emitted[k - 1].tok) =>
                   GapBefore(k) = Tabs(emitted[k].level - 1)
            /\ IndentationAfter(k, emitted[k].level)

\* a comma came right after an identifier and another after the first's indentation
C14_Witness ==
    /\ pc = "done"
    /\ input = <<"(", "a", ",", ",">>
    /\ output = <<"(", "\t", "a", ",", "\t", ",", "\t">>

IsConjunction(tok) == tok.kind = "Keyword" /\ tok.text \in ConjunctionKeywords

\* the text of emitted[k] opens a line of output indented to level n: n
\* indentation units precede it, and a line break or nothing precedes them
OpensLineAt(k, n) ==
    LET at == emitted[k].at
    IN  /\ at >= n
        /\ SubSeq(output, at - n + 1, at) = Tabs(n)
        /\ at > n => output[at - n] = "\n"

\* the level in force once emitted[k] is appended: the level the next
\* token is appended at, which a ')' has lowered by one first
LevelAfter(k) ==
    IF k < Len(emitted)
    THEN emitted[k + 1].level + (IF IsClosing(emitted[k + 1].tok) THEN 1 ELSE 0)
    ELSE indent_level

\* C15: every AND and OR is emitted at the start of a new line indented to
\* the current level, so apart from the text of the token before it, and
\* the level after it is the level before it.
C15_ConjunctionOnNewLine ==
    \A k \in 1..Len(emitted) :
        (IsConjunction(emitted[k].tok) /\ pc \in {"format", "done"}) =>
            /\ OpensLineAt(k, emitted[k].level)
            /\ LevelAfter(k) = emitted[k].level

\* the part of C15 the code keeps: the level's indentation precedes the
\* conjunction and the level is left as it is
C15_ConjunctionKeepsLevel ==
    \A k \in 1..Len(emitted) :
        (IsConjunction(emitted[k].tok) /\ pc \in {"format", "done"}) =>
            /\ emitted[k].at >= emitted[k].level
            /\ SubSeq(output, emitted[k].at - emitted[k].level + 1, emitted[k].at)
                   = Tabs(emitted[k].level)
            /\ LevelAfter(k) = emitted[k].level

\* C16: processing a Whitespace token leaves the output buffer, the
\* indentation level and the remembered previous token as they are, so
\* format returns for a token sequence what it returns for the sequence
\* without its Whitespace tokens (and panics on one if it panics on the other).
C16_WhitespaceIgnored ==
    [][ /\ (FormatToken /\ tokens[idx + 1] = Whitespace) =>
               /\ UNCHANGED <<output, indent_level, last_token>>
               /\ pc' = "format"
        /\ pc' = "done" =>
               \A oc \in BOOLEAN :
                   format(NonWhitespace(tokens'), oc)
                       = [panicked |-> FALSE, formatted |-> formatted']
        /\ pc' = "panic" =>
               \A oc \in BOOLEAN : format(NonWhitespace(tokens'), oc).panicked ]_vars

\* whitespace stood between a '(' and the token after it, and left no trace
C16_Witness ==
    /\ pc = "done"
    /\ input = <<"(", " ", "a">>
    /\ formatted = <<"(", "\t", "a">>

WhitespaceChars == {" ", "\t", "\n", "\r"}

PunctuationChars == {",", ";", "(", ")"}

OperatorChars == {"+", "-", "*", "/", "=", "<", ">"}

\* a character with no rule of its own: the fallback of the dispatch
IsOtherChar(c) ==
    /\ c \notin WhitespaceChars \cup PunctuationChars \cup OperatorChars \cup {"'"}
    /\ ~is_alphabetic(c)
    /\ ~is_digit(c)

\* C17: a space, tab, newline or carriage return is one Whitespace token
\* each; each of , ; ( ) one Punctuation; each of + - * / = < > one
\* Operator of that character ("<=" is two); a character that is none of
\* these, no quote, letter or digit, is an Identifier of that character.
\* Each consumes one character.
C17_SingleCharacterDispatch ==
    [][ /\ (NextToken /\ position < Len(input)) =>
               LET ch == input[position + 1]
               IN  /\ ch \in WhitespaceChars =>
                       ret' = Whitespace /\ position' = position + 1
                   /\ ch \in PunctuationChars =>
                       ret' = Punctuation(ch) /\ position' = position + 1
                   /\ ch \in OperatorChars =>
                       ret' = Operator(<<ch>>) /\ position' = position + 1
                   /\ IsOtherChar(ch) =>
                       ret' = Identifier(<<ch>>) /\ position' = position + 1
        /\ (ret' = EOF /\ input = <<"<", "=">>) =>
               tokens' = <<Operator(<<"<">>), Operator(<<"=">>)>>
        /\ (ret' = EOF /\ input = <<"a", " ", "\t", "\n", "\r", "b">>) =>
               tokens' = <<Identifier(<<"a">>), Whitespace, Whitespace, Whitespace,
                           Whitespace, Identifier(<<"b">>)>> ]_vars

\* a run of four whitespace characters came back as four Whitespace tokens
C17_Witness ==
    /\ ret = EOF
    /\ input = <<"a", " ", "\t", "\n", "\r", "b">>
    /\ Len(SelectSeq(tokens, LAMBDA t : t = Whitespace)) = 4

\* a character with no rule of its own came back as an Identifier
C17_WitnessOther ==
    /\ ret = Identifier(<<"#">>)
    /\ input = <<"#", Nbsp, SuperTwo>>

\* how many characters trimming takes from the front of output
TrimmedFront == Len(output) - Len(trim_start(output))

AllWhitespace(s) == \A i \in 1..Len(s) : is_whitespace(s[i])

\* the returned string is output without the whitespace at its two ends
C18_TrimsBothEnds ==
    pc = "done" =>
        /\ TrimmedFront + Len(formatted) <= Len(output)
        /\ formatted = SubSeq(output, TrimmedFront + 1, TrimmedFront + Len(formatted))
        /\ AllWhitespace(SubSeq(output, 1, TrimmedFront))
        /\ AllWhitespace(SubSeq(output, TrimmedFront + Len(formatted) + 1, Len(output)))
        /\ formatted # <<>> =>
               ~is_whitespace(formatted[1]) /\ ~is_whitespace(formatted[Len(formatted)])

\* no character of the text of a token is among the characters removed
C18_KeepsTokenText ==
    pc = "done" =>
        \A k \in 1..Len(emitted) :
            /\ emitted[k].at >= TrimmedFront
            /\ emitted[k].at + Len(emitted[k].tok.text) <= TrimmedFront + Len(formatted)

\* C18: the string format returns is the output buffer without its leading
\* and trailing whitespace, and what is removed is whitespace the formatter
\* inserted, never a character of the text of a token.
C18_TrimOnlyIncidental ==
    /\ C18_TrimsBothEnds
    /\ C18_KeepsTokenText

\* a string literal the input left open: a quote with no closing quote
IsUnterminatedLiteral(tok) ==
    /\ tok.kind = "Literal"
    /\ tok.text[1] = "'"
    /\ Len(tok.text) = 1 \/ tok.text[Len(tok.text)] # "'"

\* position i of output lies in the text of a string literal
InStringLiteral(i) ==
    \E k \in 1..Len(emitted) :
        /\ emitted[k].tok.kind = "Literal"
        /\ emitted[k].tok.text[1] = "'"
        /\ emitted[k].at < i
        /\ i <= emitted[k].at + Len(emitted[k].tok.text)

\* C19: new_line never appends a line break, only indentation: every '\n'
\* of the buffer is a character of a string literal, the buffer ends in
\* '\n' only after an unterminated string literal, which is the last token,
\* and an input with no line break inside a string literal formats to a
\* single line.
C19_NoLineBreakFromNewLine ==
    /\ \A i \in 1..Len(output) : output[i] = "\n" => InStringLiteral(i)
    /\ (output # <<>> /\ output[Len(output)] = "\n") =>
           /\ idx = Len(tokens)
           /\ IsUnterminatedLiteral(tokens[Len(tokens)])
           /\ emitted[Len(emitted)].tok = tokens[Len(tokens)]
    /\ (pc = "done" /\ \A k \in 1..Len(tokens) :
                           tokens[k].kind = "Literal" => "\n" \notin Range(tokens[k].text)) =>
           "\n" \notin Range(formatted)

\* the buffer ends in the line break of an unterminated literal, new_line
\* having run before it without breaking a line
C19_Witness ==
    /\ pc = "done"
    /\ input = <<",", "'", "\n">>
    /\ output = <<",", " ", "'", "\n">>

====
